---- MODULE Spec2Model ----
(***************************************************************************)
(* Model of the field-extraction engine of SimpleAnalyticsTool.            *)
(*                                                                         *)
(* The document text is a string; every regular expression of              *)
(* src/extractor/financial_extractor.py is translated into an operator     *)
(* that computes what re.search / re.findall computes for that pattern     *)
(* (leftmost match, greedy quantifiers, alternatives in declared order).   *)
(* One action per extractor call, and one for the Aggregator.              *)
(***************************************************************************)
EXTENDS Integers, Sequences, FiniteSets, TLC

VARIABLES
    text,       \* the document text handed to the extractors
    taxonomy,   \* TANZANIA_LOCATIONS as loaded at import time
    year,       \* datetime.now().year
    op,         \* the function called last ("idle" before any call)
    ret,        \* the value that call returned
    raised,     \* the exception that call raised ("" when it returned)
    hashseed,   \* the string-hash seed the interpreter drew when it started
    locations_json, \* the content of app/data/tanzania_locations.json
    imported,   \* the module body of financial_extractor.py has run
    threads,    \* the threads that call the Aggregator, each on its own text
    file_path,  \* the path handed to extract_text
    disk        \* what the file system holds at that path

vars == <<text, taxonomy, year, op, ret, raised, hashseed, locations_json, imported, threads,
          file_path, disk>>

(***************************************************************************)
(* Characters and character classes of the patterns.                       *)
(***************************************************************************)
Digits == {"0", "1", "2", "3", "4", "5", "6", "7", "8", "9"}

UpperChars == "ABCDEFGHIJKLMNOPQRSTUVWXYZ"

LowerChars == "abcdefghijklmnopqrstuvwxyz"

Upper == {SubSeq(UpperChars, i, i) : i \in 1..Len(UpperChars)}

Lower == {SubSeq(LowerChars, i, i) : i \in 1..Len(LowerChars)}

Letters == Upper \cup Lower

\* \s
Space == {" ", "\n", "\t"}

\* [:\s]
ColonSpace == Space \cup {":"}

\* [\d,]
DigitComma == Digits \cup {","}

\* \w
WordChars == Letters \cup Digits \cup {"_"}

\* the character of s at index i, "" outside the string
Ch(s, i) == IF i >= 1 /\ i <= Len(s) THEN SubSeq(s, i, i) ELSE ""

\* s[i-1:j] clipped to the string
Slice(s, i, j) == IF i > j \/ i > Len(s) THEN ""
                  ELSE SubSeq(s, i, IF j > Len(s) THEN Len(s) ELSE j)

IndexIn(chars, c) == CHOOSE i \in 1..Len(chars) : SubSeq(chars, i, i) = c

ToLower(c) == IF c \in Upper THEN Ch(LowerChars, IndexIn(UpperChars, c)) ELSE c

ToUpper(c) == IF c \in Lower THEN Ch(UpperChars, IndexIn(LowerChars, c)) ELSE c

RECURSIVE LowerStr(_)
\* str.lower()
LowerStr(s) ==
    IF Len(s) <= 1 THEN ToLower(s)
    ELSE LowerStr(SubSeq(s, 1, Len(s) \div 2)) \o LowerStr(SubSeq(s, Len(s) \div 2 + 1, Len(s)))

RECURSIVE UpperStr(_)
\* str.upper()
UpperStr(s) ==
    IF Len(s) <= 1 THEN ToUpper(s)
    ELSE UpperStr(SubSeq(s, 1, Len(s) \div 2)) \o UpperStr(SubSeq(s, Len(s) \div 2 + 1, Len(s)))

RECURSIVE SkipWhile(_, _, _)
\* a greedy X* at index i: the first index at or after i whose character is not in S
SkipWhile(s, i, S) == IF i <= Len(s) /\ Ch(s, i) \in S THEN SkipWhile(s, i + 1, S) ELSE i

\* the literal lit stands at index i of s
LitAt(s, i, lit) == i + Len(lit) - 1 <= Len(s) /\ SubSeq(s, i, i + Len(lit) - 1) = lit

\* a capture group is the pair of its first and last index; NoMatch when the
\* pattern does not match
NoMatch == <<0, 0>>

Group(s, m) == Slice(s, m[1], m[2])

Min(S) == CHOOSE i \in S : \A j \in S : i <= j

\* re.search: the match at the leftmost index at which the pattern matches
\* (at[i] is the pattern's capture at index i, NoMatch if it fails there)
Search(at) ==
    LET hits == {i \in DOMAIN at : at[i] # NoMatch}
    IN  IF hits = {} THEN NoMatch ELSE at[Min(hits)]

(***************************************************************************)
(* Python values: Optional[...] results, int() and float().                *)
(***************************************************************************)
None == [present |-> FALSE, val |-> 0]

Some(v) == [present |-> TRUE, val |-> v]

NoneStr == [present |-> FALSE, val |-> ""]

DigitVal(c) == IndexIn("0123456789", c) - 1

RECURSIVE ParseDigits(_, _)
ParseDigits(s, acc) == IF s = "" THEN acc
                       ELSE ParseDigits(Tail(s), 10 * acc + DigitVal(Head(s)))

\* int(s) for a string of digits
Int_(s) == ParseDigits(s, 0)

RECURSIVE RemoveChar(_, _)
\* s.replace(c, '')
RemoveChar(s, c) == IF s = "" THEN ""
                    ELSE (IF Head(s) = c THEN "" ELSE Head(s)) \o RemoveChar(Tail(s), c)

\* float(s) raises ValueError on the empty string
FloatRaises(s) == s = ""

\* float(s) for a string of digits (amounts are whole numbers of shillings)
Float_(s) == ParseDigits(s, 0)

(***************************************************************************)
(* extract_full_name                                                       *)
(***************************************************************************)
\* [A-Z][a-z]+ at index i: the index of its last character, 0 when it fails
WordEnd(s, i) == IF Ch(s, i) \in Upper /\ Ch(s, i + 1) \in Lower
                 THEN SkipWhile(s, i + 1, Lower) - 1
                 ELSE 0

\* \s[A-Z][a-z]+ after a word that ends at index e
NextWordEnd(s, e) == IF e > 0 /\ Ch(s, e + 1) \in Space THEN WordEnd(s, e + 2) ELSE 0

\* ([A-Z][a-z]+(?:\s[A-Z][a-z]+){1,2}) at index i, followed by the literal
\* `after`: the greedy {1,2} takes two more words if the rest then matches,
\* else one
NameAt(s, i, after) ==
    LET e1 == WordEnd(s, i)
        e2 == NextWordEnd(s, e1)
        e3 == NextWordEnd(s, e2)
    IN  IF e3 > 0 /\ LitAt(s, e3 + 1, after) THEN <<i, e3>>
        ELSE IF e2 > 0 /\ LitAt(s, e2 + 1, after) THEN <<i, e2>>
        ELSE NoMatch

\* r"(NAME) is (?:a|an)"
IntroAt(s, i) == NameAt(s, i, " is a")

\* r"My name is (NAME)"
MyNameAt(s, i) == IF LitAt(s, i, "My name is ") THEN NameAt(s, i + 11, "") ELSE NoMatch

\* r"Name[:\s]*(NAME)"
NameLabelAt(s, i) ==
    IF LitAt(s, i, "Name") THEN NameAt(s, SkipWhile(s, i + 4, ColonSpace), "") ELSE NoMatch

RECURSIVE SkipBack(_, _, _)
SkipBack(s, i, S) == IF i >= 1 /\ Ch(s, i) \in S THEN SkipBack(s, i - 1, S) ELSE i

\* str.strip()
Strip(s) == Slice(s, SkipWhile(s, 1, Space), SkipBack(s, Len(s), Space))

\* the match that begins first in the text, whichever pattern gave it
LeftmostMatch(ms, k) ==
    LET hits == {j \in k..Len(ms) : ms[j] # NoMatch}
    IN  IF hits = {} THEN NoMatch
        ELSE ms[CHOOSE j \in hits : \A h \in hits : ms[j][1] <= ms[h][1]]

RECURSIVE FirstMatch(_, _)
\* for pattern in patterns: match = re.search(...); if match: return it
FirstMatch(ms, k) == IF k > Len(ms) THEN NoMatch
                     ELSE IF ms[k] # NoMatch THEN ms[k]
                     ELSE FirstMatch(ms, k + 1)

NameMatches(s) == << Search([i \in 1..Len(s) |-> IntroAt(s, i)]),
                     Search([i \in 1..Len(s) |-> MyNameAt(s, i)]),
                     Search([i \in 1..Len(s) |-> NameLabelAt(s, i)]) >>

extract_full_name(s) ==
    LET match == FirstMatch(NameMatches(s), 1)
    IN  IF match # NoMatch THEN [present |-> TRUE, val |-> Strip(Group(s, match))]
        ELSE NoneStr

(***************************************************************************)
(* extract_age                                                             *)
(***************************************************************************)
\* the plausibility bound of the derived age
MaxAge == 120

\* r'Age[:\s]+(\d{1,2})'
AgeAt(s, i) ==
    IF LitAt(s, i, "Age") /\ Ch(s, i + 3) \in ColonSpace
    THEN LET j == SkipWhile(s, i + 3, ColonSpace)
         IN  IF Ch(s, j) \in Digits
             THEN <<j, IF Ch(s, j + 1) \in Digits THEN j + 1 ELSE j>>
             ELSE NoMatch
    ELSE NoMatch

FourDigitsAt(s, j) == \A k \in j..(j + 3) : Ch(s, k) \in Digits

\* r'Born(?: in)?[:\s]*(\d{4})' with re.IGNORECASE, on the lowered text
BornAt(tl, i) ==
    IF ~LitAt(tl, i, "born") THEN NoMatch
    ELSE LET a == SkipWhile(tl, i + 7, ColonSpace)
             b == SkipWhile(tl, i + 4, ColonSpace)
         IN  IF LitAt(tl, i + 4, " in") /\ FourDigitsAt(tl, a) THEN <<a, a + 3>>
             ELSE IF FourDigitsAt(tl, b) THEN <<b, b + 3>>
             ELSE NoMatch

\* the direct branch: return int(age_match.group(1))
DirectAge(s, age_match) == Some(Int_(Group(s, age_match)))

\* the birth-year branch without its plausibility check
DerivedAgeUnchecked(age) == Some(age)

\* the birth-year branch: if 0 < age < 120: return age
DerivedAge(age) == IF 0 < age /\ age < MaxAge THEN Some(age) ELSE None

extract_age(s, y) ==
    LET tl == LowerStr(s)
        age_match == Search([i \in 1..Len(s) |-> AgeAt(s, i)])
        birth_match == Search([i \in 1..Len(tl) |-> BornAt(tl, i)])
    IN  IF age_match # NoMatch THEN DirectAge(s, age_match)
        ELSE IF birth_match # NoMatch THEN DerivedAge(y - Int_(Group(s, birth_match)))
        ELSE None

(***************************************************************************)
(* extract_income, extract_bank_balance, extract_loan_limit                *)
(***************************************************************************)
\* ([\d,]+) at index j
AmountAt(s, j) == IF Ch(s, j) \in DigitComma
                  THEN <<j, SkipWhile(s, j, DigitComma) - 1>>
                  ELSE NoMatch

\* r'income of\s*([\d,]+)'
IncomeOfAt(tl, i) ==
    IF LitAt(tl, i, "income of") THEN AmountAt(tl, SkipWhile(tl, i + 9, Space)) ELSE NoMatch

\* r'earns\s*an\s*income\s*of\s*([\d,]+)'
EarnsAt(tl, i) ==
    LET a == SkipWhile(tl, i + 5, Space)
        b == SkipWhile(tl, a + 2, Space)
        c == SkipWhile(tl, b + 6, Space)
        d == SkipWhile(tl, c + 2, Space)
    IN  IF LitAt(tl, i, "earns") /\ LitAt(tl, a, "an") /\ LitAt(tl, b, "income")
           /\ LitAt(tl, c, "of")
        THEN AmountAt(tl, d)
        ELSE NoMatch

\* r'Income[:\s]*([\d,]+)'
IncomeLabelAt(tl, i) ==
    IF LitAt(tl, i, "income") THEN AmountAt(tl, SkipWhile(tl, i + 6, ColonSpace)) ELSE NoMatch

\* match.group(1).replace(',', '')
Cleaned(s, m) == RemoveChar(Group(s, m), ",")

RECURSIVE FirstAmountNoFallback(_, _, _)
\* FirstAmount with `return None` in place of `continue`: the first pattern
\* that matches decides alone
FirstAmountNoFallback(s, ms, k) ==
    IF k > Len(ms) THEN None
    ELSE IF ms[k] # NoMatch
         THEN (IF FloatRaises(Cleaned(s, ms[k])) THEN None
               ELSE Some(Float_(Cleaned(s, ms[k]))))
         ELSE FirstAmountNoFallback(s, ms, k + 1)

RECURSIVE FirstAmount(_, _, _)
\* for pat in patterns: match = re.search(...); if match: try: return
\* float(...) except ValueError: continue
FirstAmount(s, ms, k) ==
    IF k > Len(ms) THEN None
    ELSE IF ms[k] # NoMatch /\ ~FloatRaises(Cleaned(s, ms[k]))
         THEN Some(Float_(Cleaned(s, ms[k])))
         ELSE FirstAmount(s, ms, k + 1)

\* the re.search result of each income pattern, in declared order
IncomeMatches(s) ==
    LET tl == LowerStr(s)
    IN  << Search([i \in 1..Len(tl) |-> IncomeOfAt(tl, i)]),
           Search([i \in 1..Len(tl) |-> EarnsAt(tl, i)]),
           Search([i \in 1..Len(tl) |-> IncomeLabelAt(tl, i)]) >>

extract_income(s) == FirstAmount(s, IncomeMatches(s), 1)

\* r'(?:Bank\s*Balance|Balance)[:\s]*([\d,]+)'
BalanceAt(tl, i) ==
    LET p == SkipWhile(tl, i + 4, Space)
        q == IF LitAt(tl, i, "bank") /\ LitAt(tl, p, "balance") THEN p + 7
             ELSE IF LitAt(tl, i, "balance") THEN i + 7
             ELSE 0
    IN  IF q = 0 THEN NoMatch ELSE AmountAt(tl, SkipWhile(tl, q, ColonSpace))

\* a call returns a value or raises
Return(v) == [exc |-> "", value |-> v]

Raise(e) == [exc |-> e, value |-> None]

\* if match: return float(match.group(1).replace(',', ''))   (no try)
extract_bank_balance(s) ==
    LET tl == LowerStr(s)
        match == Search([i \in 1..Len(tl) |-> BalanceAt(tl, i)])
    IN  IF match = NoMatch THEN Return(None)
        ELSE IF FloatRaises(Cleaned(s, match)) THEN Raise("ValueError")
        ELSE Return(Some(Float_(Cleaned(s, match))))

\* r'loan limit of\s*([\d,]+)'
LoanLimitOfAt(tl, i) ==
    IF LitAt(tl, i, "loan limit of") THEN AmountAt(tl, SkipWhile(tl, i + 13, Space))
    ELSE NoMatch

RECURSIVE FirstOnLine(_, _, _)
\* .*? then a character of S: the first index at or after p with a character
\* of S and no newline before it, 0 when there is none
FirstOnLine(s, p, S) == IF p > Len(s) THEN 0
                        ELSE IF Ch(s, p) \in S THEN p
                        ELSE IF Ch(s, p) = "\n" THEN 0
                        ELSE FirstOnLine(s, p + 1, S)

\* r'applied for (?:a )?loan.*?([\d,]+)'
AppliedAt(tl, i) ==
    LET p == IF LitAt(tl, i, "applied for a loan") THEN i + 18
             ELSE IF LitAt(tl, i, "applied for loan") THEN i + 16
             ELSE 0
        k == IF p = 0 THEN 0 ELSE FirstOnLine(tl, p, DigitComma)
    IN  IF k = 0 THEN NoMatch ELSE AmountAt(tl, k)

\* r'(?:Loan\s*limit|Borrowing\s*limit)[:\s]*([\d,]+)'
LimitLabelAt(tl, i) ==
    LET p == SkipWhile(tl, i + 4, Space)
        b == SkipWhile(tl, i + 9, Space)
        q == IF LitAt(tl, i, "loan") /\ LitAt(tl, p, "limit") THEN p + 5
             ELSE IF LitAt(tl, i, "borrowing") /\ LitAt(tl, b, "limit") THEN b + 5
             ELSE 0
    IN  IF q = 0 THEN NoMatch ELSE AmountAt(tl, SkipWhile(tl, q, ColonSpace))

\* the re.search result of each loan-limit pattern, in declared order
LoanMatches(s) ==
    LET tl == LowerStr(s)
    IN  << Search([i \in 1..Len(tl) |-> LoanLimitOfAt(tl, i)]),
           Search([i \in 1..Len(tl) |-> AppliedAt(tl, i)]),
           Search([i \in 1..Len(tl) |-> LimitLabelAt(tl, i)]) >>

extract_loan_limit(s) == FirstAmount(s, LoanMatches(s), 1)

(***************************************************************************)
(* extract_nida_number, extract_phone_numbers                              *)
(***************************************************************************)
\* ([A-Z]?\d{15,17}) with re.IGNORECASE at index j: an optional letter, then
\* greedily up to 17 digits
NidaCoreAt(s, j) ==
    LET d == IF Ch(s, j) \in Letters THEN j + 1 ELSE j
        n == SkipWhile(s, d, Digits) - d
    IN  IF n >= 15 THEN <<j, d + (IF n > 17 THEN 17 ELSE n) - 1>> ELSE NoMatch

\* r'(?:NIDA\s*Number[:\s]*)?([A-Z]?\d{15,17})' at index i
NidaAt(tl, i) ==
    LET a == SkipWhile(tl, i + 4, Space)
        b == SkipWhile(tl, a + 6, ColonSpace)
    IN  IF LitAt(tl, i, "nida") /\ LitAt(tl, a, "number") /\ NidaCoreAt(tl, b) # NoMatch
        THEN NidaCoreAt(tl, b)
        ELSE NidaCoreAt(tl, i)

\* if len(cleaned) in (16, 17)
NidaAccepted(cleaned) == Len(cleaned) \in {16, 17}

\* match.replace(' ', '').replace('-', '')
NidaCleaned(s, match) == RemoveChar(RemoveChar(Group(s, match), " "), "-")

RECURSIVE NidaScan(_, _)
\* for match in pattern.findall(text): the non-overlapping matches from
\* left to right; the capture of the first accepted one, NoMatch when
\* none is accepted
NidaScan(s, from) ==
    LET tl == LowerStr(s)
        hits == {i \in from..Len(s) : NidaAt(tl, i) # NoMatch}
        match == NidaAt(tl, Min(hits))
    IN  IF hits = {} THEN NoMatch
        ELSE IF NidaAccepted(NidaCleaned(s, match)) THEN match
        ELSE NidaScan(s, match[2] + 1)

\* return cleaned.upper()
extract_nida_number(s) ==
    LET match == NidaScan(s, 1)
    IN  IF match = NoMatch THEN NoneStr
        ELSE [present |-> TRUE, val |-> UpperStr(NidaCleaned(s, match))]

\* r'(\+255|0)(7|6|5|4|2)\d{7,8}' at index i: the whole match
PhoneAt(s, i) ==
    LET p == IF LitAt(s, i, "+255") THEN i + 4
             ELSE IF Ch(s, i) = "0" THEN i + 1
             ELSE 0
        n == SkipWhile(s, p + 1, Digits) - (p + 1)
    IN  IF p > 0 /\ Ch(s, p) \in {"7", "6", "5", "4", "2"} /\ n >= 7
        THEN <<i, p + (IF n >= 8 THEN 8 ELSE 7)>>
        ELSE NoMatch

RECURSIVE PhoneScan(_, _)
\* [m.group() for m in pattern.finditer(text)]: the matches from left to
\* right, each search resuming behind the match before it
PhoneScan(s, from) ==
    LET hits == {i \in from..Len(s) : PhoneAt(s, i) # NoMatch}
        match == PhoneAt(s, Min(hits))
    IN  IF hits = {} THEN << >>
        ELSE <<Group(s, match)>> \o PhoneScan(s, match[2] + 1)

\* the orders in which the interpreter may lay out a set of strings: the
\* order follows the hashes of the strings, which depend on the seed drawn at
\* start-up and not on the text; two of the orders are modelled
HashSeeds == {"first_seen", "last_seen"}

RECURSIVE Distinct(_)
\* set(...): every element once
Distinct(seq) ==
    IF seq = << >> THEN << >>
    ELSE <<Head(seq)>> \o SelectSeq(Distinct(Tail(seq)), LAMBDA x : x # Head(seq))

Reverse(seq) == [i \in 1..Len(seq) |-> seq[Len(seq) + 1 - i]]

\* the list without the set(...) in between
ListKeepingRepeats(seq, seed) == IF seed = "first_seen" THEN seq ELSE Reverse(seq)

\* list(set(...)): the distinct elements in the order of the process
ListOfSet(seq, seed) ==
    IF seed = "first_seen" THEN Distinct(seq) ELSE Reverse(Distinct(seq))

extract_phone_numbers(s, seed) == ListOfSet(PhoneScan(s, 1), seed)

(***************************************************************************)
(* extract_location                                                        *)
(***************************************************************************)
\* `a in b` for strings
IsSubstr(a, b) == \E i \in 1..(Len(b) - Len(a) + 1) : SubSeq(b, i, i + Len(a) - 1) = a

Location(r, d, w) == [region |-> r, district |-> d, ward |-> w]

Named(n) == [present |-> TRUE, val |-> n]

RECURSIVE ScanWards(_, _, _)
\* for ward in wards: if ward.lower() in text_lower: return ...; return ward None
ScanWards(wards, k, tl) ==
    IF k > Len(wards) THEN NoneStr
    ELSE IF IsSubstr(LowerStr(wards[k]), tl) THEN Named(wards[k])
    ELSE ScanWards(wards, k + 1, tl)

RECURSIVE ScanDistrictsLoose(_, _, _, _)
\* ScanDistricts with the ward loop outside the district test: the wards of
\* a district are scanned whether or not the district matched
ScanDistrictsLoose(region, districts, k, tl) ==
    IF k > Len(districts) THEN Location(Named(region), NoneStr, NoneStr)
    ELSE IF IsSubstr(LowerStr(districts[k].name), tl)
         THEN Location(Named(region), Named(districts[k].name),
                       ScanWards(districts[k].wards, 1, tl))
         ELSE IF ScanWards(districts[k].wards, 1, tl).present
              THEN Location(Named(region), NoneStr, ScanWards(districts[k].wards, 1, tl))
              ELSE ScanDistrictsLoose(region, districts, k + 1, tl)

RECURSIVE ScanDistricts(_, _, _, _)
\* for district, wards in districts.items(): ...; return district None
ScanDistricts(region, districts, k, tl) ==
    IF k > Len(districts) THEN Location(Named(region), NoneStr, NoneStr)
    ELSE IF IsSubstr(LowerStr(districts[k].name), tl)
         THEN Location(Named(region), Named(districts[k].name),
                       ScanWards(districts[k].wards, 1, tl))
         ELSE ScanDistricts(region, districts, k + 1, tl)

RECURSIVE ScanRegionsFallThrough(_, _, _)
\* ScanRegions without the return after the district loop: a region whose
\* districts all miss is passed over and the next region is tried
ScanRegionsFallThrough(tax, k, tl) ==
    IF k > Len(tax) THEN Location(NoneStr, NoneStr, NoneStr)
    ELSE IF /\ IsSubstr(LowerStr(tax[k].name), tl)
            /\ ScanDistricts(tax[k].name, tax[k].districts, 1, tl).district.present
         THEN ScanDistricts(tax[k].name, tax[k].districts, 1, tl)
         ELSE ScanRegionsFallThrough(tax, k + 1, tl)

RECURSIVE ScanRegions(_, _, _)
\* for region, districts in TANZANIA_LOCATIONS.items(): ...; return all None
ScanRegions(tax, k, tl) ==
    IF k > Len(tax) THEN Location(NoneStr, NoneStr, NoneStr)
    ELSE IF IsSubstr(LowerStr(tax[k].name), tl)
         THEN ScanDistricts(tax[k].name, tax[k].districts, 1, tl)
         ELSE ScanRegions(tax, k + 1, tl)

extract_location(s, tax) == ScanRegions(tax, 1, LowerStr(s))

(***************************************************************************)
(* extract_job_and_work                                                    *)
(***************************************************************************)
job_keywords == << "software developer", "engineer", "teacher", "manager", "consultant",
                   "accountant", "driver", "nurse", "farmer", "mechanic", "worker",
                   "developer", "technician", "officer", "supervisor", "assistant",
                   "clerk", "operator", "analyst", "security", "doctor" >>

\* \b between index i - 1 and index i
Boundary(s, i) == (Ch(s, i - 1) \in WordChars) # (Ch(s, i) \in WordChars)

\* the keyword k stands at index i between two word boundaries
KeywordAt(tl, i, k) ==
    /\ LitAt(tl, i, job_keywords[k])
    /\ Boundary(tl, i)
    /\ Boundary(tl, i + Len(job_keywords[k]))

\* r'\b(kw1|kw2|...)\b' with re.IGNORECASE at index i: the first alternative,
\* in declared order, that matches there
JobAt(tl, i) ==
    LET ks == {k \in 1..Len(job_keywords) : KeywordAt(tl, i, k)}
    IN  IF ks = {} THEN NoMatch ELSE <<i, i + Len(job_keywords[Min(ks)]) - 1>>

RECURSIVE TitleFrom(_, _)
\* str.title(): a letter after a letter is lowered, any other letter is raised
TitleFrom(s, afterLetter) ==
    IF s = "" THEN ""
    ELSE (IF afterLetter THEN ToLower(Head(s)) ELSE ToUpper(Head(s)))
         \o TitleFrom(Tail(s), Head(s) \in Letters)

Title(s) == TitleFrom(s, FALSE)

\* [\w&\s\-]
WorkplaceChars == WordChars \cup Space \cup {"&", "-"}

\* r'<intro> ([A-Z][\w&\s\-]+)' with re.IGNORECASE at index i
WorkplaceAt(tl, i, intro) ==
    LET j == i + Len(intro)
    IN  IF LitAt(tl, i, intro) /\ Ch(tl, j) \in Letters /\ Ch(tl, j + 1) \in WorkplaceChars
        THEN <<j, SkipWhile(tl, j + 1, WorkplaceChars) - 1>>
        ELSE NoMatch

workplace_intros == << "works at ", "employed by ", "working at ", "employee of " >>

WorkplaceMatches(s) ==
    LET tl == LowerStr(s)
    IN  [k \in 1..Len(workplace_intros) |->
            Search([i \in 1..Len(tl) |-> WorkplaceAt(tl, i, workplace_intros[k])])]

extract_job_and_work(s) ==
    LET tl == LowerStr(s)
        job_match == Search([i \in 1..Len(tl) |-> JobAt(tl, i)])
        job_title == IF job_match # NoMatch
                     THEN [present |-> TRUE, val |-> Title(Group(s, job_match))]
                     ELSE NoneStr
        match == FirstMatch(WorkplaceMatches(s), 1)
    IN  [job_title |-> job_title,
         workplace |-> IF match # NoMatch
                       THEN [present |-> TRUE, val |-> Strip(Group(s, match))]
                       ELSE NoneStr]

(***************************************************************************)
(* extract_all_financial_data: the Aggregator                              *)
(***************************************************************************)
\* the dict literal calls every extractor; the ValueError of
\* extract_bank_balance is not caught and propagates to the caller
extract_all_financial_data(s, tax, y, seed) ==
    LET balance == extract_bank_balance(s)
        job == extract_job_and_work(s)
    IN  IF balance.exc # "" THEN Raise(balance.exc)
        ELSE Return([full_name |-> extract_full_name(s),
                     phone_numbers |-> extract_phone_numbers(s, seed),
                     nida_number |-> extract_nida_number(s),
                     age |-> extract_age(s, y),
                     location |-> extract_location(s, tax),
                     income_tzs |-> extract_income(s),
                     bank_balance_tzs |-> balance.value,
                     loan_limit_tzs |-> extract_loan_limit(s),
                     job_title |-> job.job_title,
                     workplace |-> job.workplace])

(***************************************************************************)
(* The earlier extractors of the repository the claims also name.          *)
(***************************************************************************)
\* app/location_extractor.py: the same walk, written with a result dict
RECURSIVE AppScanWards(_, _, _, _)
AppScanWards(result, wards, k, tl) ==
    IF k > Len(wards) THEN result
    ELSE IF IsSubstr(LowerStr(wards[k]), tl) THEN [result EXCEPT !.ward = Named(wards[k])]
    ELSE AppScanWards(result, wards, k + 1, tl)

RECURSIVE AppScanDistricts(_, _, _, _)
AppScanDistricts(result, districts, k, tl) ==
    IF k > Len(districts) THEN result
    ELSE IF IsSubstr(LowerStr(districts[k].name), tl)
         THEN AppScanWards([result EXCEPT !.district = Named(districts[k].name)],
                           districts[k].wards, 1, tl)
         ELSE AppScanDistricts(result, districts, k + 1, tl)

RECURSIVE AppScanRegions(_, _, _, _)
AppScanRegions(result, tax, k, tl) ==
    IF k > Len(tax) THEN result
    ELSE IF IsSubstr(LowerStr(tax[k].name), tl)
         THEN AppScanDistricts([result EXCEPT !.region = Named(tax[k].name)],
                               tax[k].districts, 1, tl)
         ELSE AppScanRegions(result, tax, k + 1, tl)

app_extract_location(s, tax) ==
    AppScanRegions(Location(NoneStr, NoneStr, NoneStr), tax, 1, LowerStr(s))

\* app/extractors/financial_data_extractor.py: r'Age[:\s]+(\d{1,3})' with re.I
AppAgeAt(tl, i) ==
    IF LitAt(tl, i, "age") /\ Ch(tl, i + 3) \in ColonSpace
    THEN LET j == SkipWhile(tl, i + 3, ColonSpace)
         IN  IF Ch(tl, j) \in Digits
             THEN <<j, SkipWhile(tl, j, Digits) - 1>>
             ELSE NoMatch
    ELSE NoMatch

\* r'(Born|Birth Year|DOB)[:\s]+(\d{4})' with re.I: group 2
AppBornAt(tl, i) ==
    LET q == IF LitAt(tl, i, "born") THEN i + 4
             ELSE IF LitAt(tl, i, "birth year") THEN i + 10
             ELSE IF LitAt(tl, i, "dob") THEN i + 3
             ELSE 0
        j == SkipWhile(tl, q, ColonSpace)
    IN  IF q > 0 /\ j > q /\ FourDigitsAt(tl, j) THEN <<j, j + 3>> ELSE NoMatch

app_extract_age(s, y) ==
    LET tl == LowerStr(s)
        found == Search([i \in 1..Len(tl) |-> AppAgeAt(tl, i)])
        age_match == IF found = NoMatch THEN NoMatch
                     ELSE <<found[1], IF found[2] > found[1] + 2 THEN found[1] + 2
                                      ELSE found[2]>>
        birth_year_match == Search([i \in 1..Len(tl) |-> AppBornAt(tl, i)])
    IN  IF age_match # NoMatch THEN Some(Int_(Group(s, age_match)))
        ELSE IF birth_year_match # NoMatch THEN Some(y - Int_(Group(s, birth_year_match)))
        ELSE None

(***************************************************************************)
(* extract_text of src/extractor/text_extractor.py and of                  *)
(* src/app/extractor.py, and main() of src/main.py around them.            *)
(***************************************************************************)
\* what may stand at a path: nothing, a file that reads as its format, a
\* file that does not (bytes that are no UTF-8, a damaged document)
DiskStates == {"absent", "readable", "unreadable"}

\* str.rfind for a single character, 0 when it does not occur
LastIndexOf(s, c) ==
    LET at == {i \in 1..Len(s) : Ch(s, i) = c}
    IN  IF at = {} THEN 0 ELSE CHOOSE i \in at : \A j \in at : j <= i

\* os.path.splitext(p)[1]: from the last dot of the last path component,
\* unless only dots stand before it in that component
splitext(p) ==
    LET sepIndex == LastIndexOf(p, "/")
        dotIndex == LastIndexOf(p, ".")
    IN  IF dotIndex > sepIndex /\ \E k \in (sepIndex + 1)..(dotIndex - 1) : Ch(p, k) # "."
        THEN Slice(p, dotIndex, Len(p))
        ELSE ""

\* the names the module src/extractor/text_extractor.py binds
text_extractor_names ==
    { "os", "sys", "spacy", "List", "Dict", "Any", "defaultdict", "re",
      "TextAnalyzer", "extract_text", "_extract_txt", "_extract_pdf", "_extract_docx" }

\* raise Name(...): the name is looked up when the statement runs
RaiseNamed(name, bound) == IF name \in bound THEN Raise(name) ELSE Raise("NameError")

\* _extract_txt, _extract_pdf, _extract_docx: the text, or the failure of
\* the reader of that format
ReadAs(d, content, failure) ==
    IF d = "readable" THEN Return(Named(content)) ELSE Raise(failure)

extract_text(path, d, content) ==
    LET ext == LowerStr(splitext(path))
    IN  IF d = "absent" THEN Raise("FileNotFoundError")
        ELSE IF ext = ".txt" THEN ReadAs(d, content, "UnicodeDecodeError")
        ELSE IF ext = ".pdf" THEN ReadAs(d, content, "RuntimeError")
        ELSE IF ext = ".docx" THEN ReadAs(d, content, "RuntimeError")
        ELSE RaiseNamed("UnsupportedFileTypeError", text_extractor_names)

\* src/app/extractor.py
app_extract_text(path, d, content) ==
    LET ext == LowerStr(splitext(path))
    IN  IF d = "absent" THEN Raise("FileNotFoundError")
        ELSE IF ext = ".pdf" THEN ReadAs(d, content, "PdfReadError")
        ELSE IF ext = ".docx" THEN ReadAs(d, content, "PackageNotFoundError")
        ELSE IF ext = ".txt" THEN ReadAs(d, content, "UnicodeDecodeError")
        ELSE Raise("ValueError")

\* from extractor.text_extractor import extract_text, UnsupportedFileTypeError
main_imports == {"extract_text", "UnsupportedFileTypeError"}

\* except (FileNotFoundError, UnsupportedFileTypeError, ValueError): the
\* error is printed (UnicodeDecodeError is a ValueError); except Exception:
\* it is written to error_log.txt
Handler(exc) ==
    IF exc \in {"FileNotFoundError", "UnsupportedFileTypeError", "ValueError",
                "UnicodeDecodeError"}
    THEN "error printed"
    ELSE "error logged"

\* python main.py with the path entered at the prompt: the import at line 9
\* stands outside main()'s try; inside it prompt_file_path raises
\* FileNotFoundError for a path that is no file, then extract_text and the
\* Aggregator run
main(path, d, content, tax, y, seed) ==
    LET extracted == extract_text(path, d, content)
        data == extract_all_financial_data(content, tax, y, seed)
    IN  IF ~(main_imports \subseteq text_extractor_names) THEN Raise("ImportError")
        ELSE IF extracted.exc # "" THEN Return(Named(Handler(extracted.exc)))
        ELSE IF Strip(content) = "" THEN Return(Named("no readable text"))
        ELSE IF data.exc # "" THEN Return(Named(Handler(data.exc)))
        ELSE Return(Named("report generated"))

(***************************************************************************)
(* Inputs: documents, taxonomies, years.                                   *)
(***************************************************************************)
\* the number of fragments a document is put together from
MaxParts == 2

\* the longest run of digits in a document
MaxDigits == 18

RECURSIVE Concats(_, _)
\* the documents made of at most n fragments of F
Concats(F, n) == IF n = 0 THEN {""}
                 ELSE LET shorter == Concats(F, n - 1)
                      IN  shorter \cup {a \o b : a \in shorter, b \in F}

DigitRun(n) == SubSeq("1234567890123456789012345", 1, n)

ScenarioText ==
    "Name: Juma Mkono\nAge: 29\nIncome: TZS 500,000\nDar es Salaam, Kinondoni, Mikocheni"

NameFragments == { "Name: Juma Mkono", "\nAge: 29", "My name is Asha Ali. ",
                   "Peter Doe is a teacher. ", "Mary Ann Lee Roy is an engineer ",
                   "name: Sara Paulo ", " Omari", "\n" }

AgeFragments == { "Age: 29\n", "Age: 0\n", "Age: 120\n", "Age: 150\n", "age 31\n",
                  "Born: 1994\n", "born in 1800\n", "Born 2030\n", "Born: 1904\n",
                  "Born: 2024\n", "DOB: 1990\n" }

NidaFragments == {DigitRun(n) : n \in 14..MaxDigits}
                 \cup { "A", "t", "NIDA Number: ", " " }

PhoneFragments == { "0712345678", "+255612345678", "071234567", "0312345678",
                    "call 0712345678 ", " " }

MoneyFragments == { "Income: 500,000\n", "income of ,\n", "He earns an income\nof 1,200\n",
                    "Income: TZS 300\n", "Income: 0\n", "Balance: ,\n",
                    "Bank  Balance: 2,500\n", "loan limit of 900\n",
                    "applied for a loan, worth 700\n", "Loan limit: 4,000\n" }

LocationFragments == { "Dar es Salaam, Kinondoni, Mikocheni", "Dar es Salaam", "kinondoni",
                       "Arusha", "MERU", "Kawe", "Kariakoo", "Dodoma ", ", " }

JobFragments == { "She works at Acme Ltd\n", "employed by x-corp & sons.",
                  "software developers and a Driver ", "a Software Developer, ",
                  "Employee of Bank-1 " }

RecordFragments == { ScenarioText, "\nBalance: ,", "\nLoan limit: 900,000",
                     "\nNIDA Number: " \o DigitRun(16), "\nPhone 0712345678",
                     "\nHe is a driver employed by Acme", "Income: 100,000\n" }

\* region -> district -> wards, in the order of the JSON file
Tanzania ==
    << [name |-> "Dar es Salaam",
        districts |-> << [name |-> "Kinondoni", wards |-> <<"Mikocheni", "Kawe">>],
                         [name |-> "Ilala", wards |-> <<"Kariakoo">>] >>],
       [name |-> "Arusha",
        districts |-> << [name |-> "Meru", wards |-> <<"Usa River">>] >>] >>

ArushaFirst ==
    << [name |-> "Arusha",
        districts |-> << [name |-> "Meru", wards |-> <<"Kawe">>],
                         [name |-> "Karatu", wards |-> <<"Kinondoni">>] >>],
       [name |-> "Dar es Salaam",
        districts |-> << [name |-> "Kinondoni", wards |-> <<"Mikocheni">>] >>] >>

NoWards ==
    << [name |-> "Dodoma", districts |-> << >>],
       [name |-> "Arusha",
        districts |-> << [name |-> "Arusha", wards |-> <<"Kati", "Kawe">>] >>],
       [name |-> "Dar es Salaam",
        districts |-> << [name |-> "Ilala", wards |-> << >>],
                         [name |-> "Kinondoni", wards |-> <<"Kawe", "Mikocheni">>] >>] >>

Taxonomies == {Tanzania, ArushaFirst, NoWards}

Years == {2024, 2026}

Input(texts, taxes, years, seeds) ==
    [text : texts, taxonomy : taxes, year : years, hashseed : seeds,
     file_path : {"C:/docs/loan.txt"}, disk : {"readable"}]

Paths == { "loan.txt", "LOAN.TXT", "loan.pdf", "docs/loan.Docx", "loan.doc", "notes.csv",
           "README", ".txt", "docs.txt/report", "loan.tar.pdf", "loan.txt.", "a.b/loan" }

FileInputs ==
    [text : {ScenarioText, " \n", "Balance: ,"}, taxonomy : {Tanzania}, year : {2024},
     hashseed : {"first_seen"}, file_path : Paths, disk : DiskStates]

Inputs ==
    Input(Concats(NameFragments, MaxParts), {Tanzania}, {2024}, {"first_seen"})
    \cup Input(Concats(AgeFragments, MaxParts), {Tanzania}, Years, {"first_seen"})
    \cup Input(Concats(NidaFragments, MaxParts), {Tanzania}, {2024}, {"first_seen"})
    \cup Input(Concats(PhoneFragments, MaxParts), {Tanzania}, {2024}, HashSeeds)
    \cup Input(Concats(MoneyFragments, MaxParts), {Tanzania}, {2024}, {"first_seen"})
    \cup Input(Concats(LocationFragments, MaxParts), Taxonomies, {2024}, {"first_seen"})
    \cup Input(Concats(JobFragments, MaxParts), {Tanzania}, {2024}, {"first_seen"})
    \cup Input(Concats(RecordFragments, MaxParts), {Tanzania}, {2024}, HashSeeds)
    \cup FileInputs

(***************************************************************************)
(* The state machine: a document is loaded, the caller calls one function  *)
(* on it and takes the result.                                             *)
(***************************************************************************)
Init ==
    /\ \E input \in Inputs :
          /\ text = input.text
          /\ taxonomy = input.taxonomy
          /\ year = input.year
          /\ hashseed = input.hashseed
          /\ file_path = input.file_path
          /\ disk = input.disk
          /\ locations_json = input.taxonomy
    /\ imported = TRUE
    /\ threads = << >>
    /\ op = "idle"
    /\ ret = None
    /\ raised = ""

\* the call of a function that returns v
Returns(name, v) ==
    /\ op = "idle"
    /\ op' = name
    /\ ret' = v
    /\ raised' = ""
    /\ UNCHANGED <<text, taxonomy, year, hashseed, locations_json, imported, threads,
                 file_path, disk>>

\* the call of a function whose outcome is a Return or a Raise
Outcome(name, o) ==
    /\ op = "idle"
    /\ op' = name
    /\ ret' = o.value
    /\ raised' = o.exc
    /\ UNCHANGED <<text, taxonomy, year, hashseed, locations_json, imported, threads,
                 file_path, disk>>

ExtractFullName == Returns("extract_full_name", extract_full_name(text))

ExtractPhoneNumbers == Returns("extract_phone_numbers", extract_phone_numbers(text, hashseed))

ExtractNidaNumber == Returns("extract_nida_number", extract_nida_number(text))

ExtractAge == Returns("extract_age", extract_age(text, year))

ExtractIncome == Returns("extract_income", extract_income(text))

ExtractBankBalance == Outcome("extract_bank_balance", extract_bank_balance(text))

ExtractLoanLimit == Returns("extract_loan_limit", extract_loan_limit(text))

ExtractLocation == Returns("extract_location", extract_location(text, taxonomy))

ExtractJobAndWork == Returns("extract_job_and_work", extract_job_and_work(text))

ExtractAllFinancialData ==
    Outcome("extract_all_financial_data", extract_all_financial_data(text, taxonomy, year, hashseed))

AppExtractLocation == Returns("app_extract_location", app_extract_location(text, taxonomy))

AppExtractAge == Returns("app_extract_age", app_extract_age(text, year))

ExtractText == Outcome("extract_text", extract_text(file_path, disk, text))

AppExtractText == Outcome("app_extract_text", app_extract_text(file_path, disk, text))

Main == Outcome("main", main(file_path, disk, text, taxonomy, year, hashseed))

\* the caller has taken the result (or handled the exception)
Done ==
    /\ op # "idle"
    /\ op' = "idle"
    /\ ret' = None
    /\ raised' = ""
    /\ UNCHANGED <<text, taxonomy, year, hashseed, locations_json, imported, threads,
                 file_path, disk>>

Next ==
    \/ ExtractFullName
    \/ ExtractPhoneNumbers
    \/ ExtractNidaNumber
    \/ ExtractAge
    \/ ExtractIncome
    \/ ExtractBankBalance
    \/ ExtractLoanLimit
    \/ ExtractLocation
    \/ ExtractJobAndWork
    \/ ExtractAllFinancialData
    \/ AppExtractLocation
    \/ AppExtractAge
    \/ ExtractText
    \/ AppExtractText
    \/ Main
    \/ Done

Spec == Init /\ [][Next]_vars

(***************************************************************************)
(* Several threads of one process call the Aggregator, each on its own     *)
(* text, MaxCalls times in all.  TANZANIA_LOCATIONS, the clock and the     *)
(* hash seed belong to the process, everything else to the call.  A call   *)
(* evaluates the entries of the dict literal in order; a step of a thread  *)
(* runs up to and including the next entry that reads the process, so the  *)
(* threads interleave around every access to what they share.              *)
(***************************************************************************)
MaxThreads == 2

MaxCalls == 3

Threads == 1..MaxThreads

\* the texts of the threads: thread t reads the t-th one, counted from a
\* first one that varies
Documents ==
    << "Born: 1994, Kawe, Dar es Salaam\n0712345678 +255612345678",
       "Arusha, Meru\n0612345678 0612345678\nIncome: 500",
       "Peter Doe is a teacher. Dodoma\nBalance: ," >>

DocumentOf(t, first) == Documents[((t + first) % Len(Documents)) + 1]

\* the record under construction before its first entry is evaluated
NoData == [full_name |-> NoneStr, phone_numbers |-> << >>, nida_number |-> NoneStr,
           age |-> None, location |-> Location(NoneStr, NoneStr, NoneStr),
           income_tzs |-> None, bank_balance_tzs |-> None, loan_limit_tzs |-> None,
           job_title |-> NoneStr, workplace |-> NoneStr]

shared == <<taxonomy, year, hashseed, locations_json, imported>>

caller == <<text, op, ret, raised, file_path, disk>>

ThreadsInit ==
    /\ locations_json \in {Tanzania, NoWards}
    /\ taxonomy = << >>
    /\ imported = FALSE
    /\ year = 2024
    /\ hashseed \in HashSeeds
    /\ \E first \in 1..Len(Documents) :
          threads = [t \in Threads |->
                        [text |-> DocumentOf(t, first), pc |-> "idle", data |-> NoData,
                         returned |-> << >>]]
    /\ text = "" /\ op = "idle" /\ ret = None /\ raised = ""
    /\ file_path = "" /\ disk = "absent"

\* `import extractor.financial_extractor`: the module body loads the taxonomy
\* before any of its functions can be called
ImportModule ==
    /\ ~imported
    /\ taxonomy' = locations_json
    /\ imported' = TRUE
    /\ UNCHANGED <<year, hashseed, locations_json, threads, caller>>

RECURSIVE CallsOf(_)
\* the calls the threads 1..t have made so far, the running ones included
CallsOf(t) ==
    IF t = 0 THEN 0
    ELSE CallsOf(t - 1) + Len(threads[t].returned)
                        + (IF threads[t].pc = "idle" THEN 0 ELSE 1)

\* a thread calls extract_all_financial_data(text)
CallAggregator(t) ==
    /\ imported
    /\ threads[t].pc = "idle"
    /\ CallsOf(MaxThreads) < MaxCalls
    /\ threads' = [threads EXCEPT ![t].pc = "phone_numbers", ![t].data = NoData]
    /\ UNCHANGED <<shared, caller>>

\* the call has evaluated the entries up to `at` and goes on
Entries(t, at, data, next) ==
    /\ threads[t].pc = at
    /\ threads' = [threads EXCEPT ![t].data = data, ![t].pc = next]

\* the call ends, with the record or with the exception
Ends(t, at, outcome) ==
    /\ threads[t].pc = at
    /\ threads' = [threads EXCEPT ![t].pc = "idle", ![t].returned = Append(@, outcome)]

\* "full_name" and "phone_numbers"; after this extract_phone_numbers the
\* process lays its sets out in another order
EvalPhoneNumbersReseeding(t) ==
    /\ Entries(t, "phone_numbers",
               [threads[t].data EXCEPT
                   !.full_name = extract_full_name(threads[t].text),
                   !.phone_numbers = extract_phone_numbers(threads[t].text, hashseed)],
               "age")
    /\ hashseed' = CHOOSE seed \in HashSeeds : seed # hashseed
    /\ UNCHANGED <<taxonomy, year, locations_json, imported, caller>>

\* "full_name" and "phone_numbers": list(set(...)) follows the hash seed
EvalPhoneNumbers(t) ==
    /\ Entries(t, "phone_numbers",
               [threads[t].data EXCEPT
                   !.full_name = extract_full_name(threads[t].text),
                   !.phone_numbers = extract_phone_numbers(threads[t].text, hashseed)],
               "age")
    /\ UNCHANGED <<shared, caller>>

\* "nida_number" and "age": extract_age reads the clock
EvalAge(t) ==
    /\ Entries(t, "age",
               [threads[t].data EXCEPT
                   !.nida_number = extract_nida_number(threads[t].text),
                   !.age = extract_age(threads[t].text, year)],
               "location")
    /\ UNCHANGED <<shared, caller>>

\* "location": an extract_location that takes the first region out of
\* TANZANIA_LOCATIONS once it has read it
EvalLocationConsuming(t) ==
    /\ Entries(t, "location",
               [threads[t].data EXCEPT
                   !.location = extract_location(threads[t].text, taxonomy)],
               "income_tzs")
    /\ taxonomy' = IF taxonomy = << >> THEN taxonomy ELSE Tail(taxonomy)
    /\ UNCHANGED <<year, hashseed, locations_json, imported, caller>>

\* "location": extract_location reads TANZANIA_LOCATIONS
EvalLocation(t) ==
    /\ Entries(t, "location",
               [threads[t].data EXCEPT
                   !.location = extract_location(threads[t].text, taxonomy)],
               "income_tzs")
    /\ UNCHANGED <<shared, caller>>

\* "income_tzs", "bank_balance_tzs", "loan_limit_tzs" and
\* **extract_job_and_work(text): the call returns the record, or the
\* ValueError of extract_bank_balance ends it
EvalRest(t) ==
    LET balance == extract_bank_balance(threads[t].text)
        job == extract_job_and_work(threads[t].text)
    IN  /\ Ends(t, "income_tzs",
                IF balance.exc # "" THEN Raise(balance.exc)
                ELSE Return([threads[t].data EXCEPT
                                !.income_tzs = extract_income(threads[t].text),
                                !.bank_balance_tzs = balance.value,
                                !.loan_limit_tzs = extract_loan_limit(threads[t].text),
                                !.job_title = job.job_title,
                                !.workplace = job.workplace]))
        /\ UNCHANGED <<shared, caller>>

ThreadsNext ==
    \/ ImportModule
    \/ \E t \in Threads :
          \/ CallAggregator(t)
          \/ EvalPhoneNumbers(t)
          \/ EvalAge(t)
          \/ EvalLocation(t)
          \/ EvalRest(t)

Concurrent == ThreadsInit /\ [][ThreadsNext]_vars

(***************************************************************************)
(* Properties.                                                             *)
(***************************************************************************)
FieldExtractors == { "extract_full_name", "extract_phone_numbers", "extract_nida_number",
                     "extract_age", "extract_income", "extract_bank_balance",
                     "extract_loan_limit", "extract_location", "extract_job_and_work" }

NumericExtractors == { "extract_age", "extract_income", "extract_bank_balance",
                       "extract_loan_limit" }

LocationExtractors == { "extract_location", "app_extract_location" }

IsOptionalNumber(v) == v.present \in BOOLEAN /\ v.val \in Nat

AggregatorReturned == op = "extract_all_financial_data" /\ raised = ""

\* C1: every field extractor returns for every text (it never raises), and a
\* numeric extractor returns a number or the absence marker.
C1_ExtractorsNeverRaise ==
    op \in FieldExtractors =>
        /\ raised = ""
        /\ op \in NumericExtractors => IsOptionalNumber(ret)

\* C2: the age extract_age returns is absent or lies strictly between 0 and 120.
C2_AgeWithinBound ==
    op = "extract_age" /\ ret.present => 0 < ret.val /\ ret.val < MaxAge

\* the capture of the NIDA candidate that was accepted, and the length of the
\* whole run of digits that capture lies in
AcceptedNida == NidaScan(text, 1)

FirstDigitOf(m) == IF Ch(text, m[1]) \in Digits THEN m[1] ELSE m[1] + 1

TokenDigits(m) ==
    SkipWhile(text, FirstDigitOf(m), Digits) - SkipBack(text, FirstDigitOf(m), Digits) - 1

DigitCount(s) == Cardinality({i \in 1..Len(s) : Ch(s, i) \in Digits})

\* C3: a returned national ID holds exactly 16 or 17 digits, and it is the
\* whole token it was taken from: a token of 15 or of 18 digits is never
\* accepted, neither whole nor cut short.
C3_NidaSixteenOrSeventeenDigits ==
    op = "extract_nida_number" /\ ret.present =>
        /\ DigitCount(ret.val) \in {16, 17}
        /\ TokenDigits(AcceptedNida) = DigitCount(ret.val)

HierarchyHolds(loc) ==
    /\ loc.district.present => loc.region.present
    /\ loc.ward.present => loc.district.present

\* C4: in a Location Match a district implies a region and a ward implies a
\* district, for both location resolvers and inside the Aggregator's record.
C4_LocationHierarchy ==
    /\ op \in LocationExtractors => HierarchyHolds(ret)
    /\ AggregatorReturned => HierarchyHolds(ret.location)

\* a region was selected, none of its districts occurs in the text, yet a
\* ward of one of them does
C4_Witness ==
    /\ op = "extract_location"
    /\ ret.region.present /\ ~ret.district.present /\ ~ret.ward.present
    /\ \E r \in 1..Len(taxonomy) : \E d \in 1..Len(taxonomy[r].districts) :
          /\ taxonomy[r].name = ret.region.val
          /\ \E w \in 1..Len(taxonomy[r].districts[d].wards) :
                IsSubstr(LowerStr(taxonomy[r].districts[d].wards[w]), LowerStr(text))

\* the indices of the names that occur in the lowered text
HitsIn(names, tl) == {k \in 1..Len(names) : IsSubstr(LowerStr(names[k]), tl)}

RegionNames(tax) == [k \in 1..Len(tax) |-> tax[k].name]

DistrictNames(tax, r) == [k \in 1..Len(tax[r].districts) |-> tax[r].districts[k].name]

\* first hit in declared order at each level, nothing below a level that misses
FirstHitLocation(s, tax) ==
    LET tl == LowerStr(s)
        rs == HitsIn(RegionNames(tax), tl)
        r == Min(rs)
        ds == IF rs = {} THEN {} ELSE HitsIn(DistrictNames(tax, r), tl)
        d == Min(ds)
        ws == IF ds = {} THEN {} ELSE HitsIn(tax[r].districts[d].wards, tl)
    IN  [region |-> IF rs = {} THEN NoneStr ELSE Named(tax[r].name),
         district |-> IF ds = {} THEN NoneStr ELSE Named(tax[r].districts[d].name),
         ward |-> IF ws = {} THEN NoneStr ELSE Named(tax[r].districts[d].wards[Min(ws)])]

\* C5: the resolver returns the first region of the taxonomy that occurs in
\* the text, the first district of that region that occurs, the first ward of
\* that district that occurs, and nothing below a level that misses.
C5_FirstHitNoBacktrack ==
    op \in LocationExtractors => ret = FirstHitLocation(text, taxonomy)

\* two regions occur in the text, the one selected has no district in the
\* text while a later one has
C5_Witness ==
    /\ op = "extract_location"
    /\ ret.region.present /\ ~ret.district.present
    /\ \E r \in HitsIn(RegionNames(taxonomy), LowerStr(text)) :
          /\ taxonomy[r].name # ret.region.val
          /\ HitsIn(DistrictNames(taxonomy, r), LowerStr(text)) # {}

\* C6: when the income is present the record's loan ceiling is income * 5.
C6_CeilingIsFiveTimesIncome ==
    AggregatorReturned /\ ret.income_tzs.present =>
        ret.loan_limit_tzs = Some(ret.income_tzs.val * 5)

\* C7: when the income is absent the record's loan ceiling is absent,
\* whatever loan figure the text mentions.
C7_NoIncomeNoCeiling ==
    AggregatorReturned /\ ~ret.income_tzs.present => ~ret.loan_limit_tzs.present

\* C8: the four-line scenario yields name "Juma Mkono", age 29, income
\* 500000, the full location and a ceiling of 2500000.
C8_Scenario ==
    op = "extract_all_financial_data" /\ text = ScenarioText /\ taxonomy = Tanzania =>
        /\ raised = ""
        /\ ret.full_name = Named("Juma Mkono")
        /\ ret.age = Some(29)
        /\ ret.income_tzs = Some(500000)
        /\ ret.location = Location(Named("Dar es Salaam"), Named("Kinondoni"),
                                   Named("Mikocheni"))
        /\ ret.loan_limit_tzs = Some(2500000)

\* the patterns of the field the last call extracted, as re.search results
PatternMatches == IF op = "extract_income" THEN IncomeMatches(text) ELSE LoanMatches(text)

Matched(ms) == {k \in 1..Len(ms) : ms[k] # NoMatch}

Converts(s, ms) == {k \in Matched(ms) : Cleaned(s, ms[k]) # ""}

\* C9 as stated: the first pattern that matches decides alone; if its capture
\* does not convert, the field is absent.
C9_FirstMatchAlone ==
    op \in {"extract_income", "extract_loan_limit"} /\ Matched(PatternMatches) # {} =>
        IF Min(Matched(PatternMatches)) \in Converts(text, PatternMatches)
        THEN ret = Some(Float_(Cleaned(text, PatternMatches[Min(Matched(PatternMatches))])))
        ELSE ret = None

\* C9 amended: the first pattern, in declared order, whose leftmost match has
\* a capture that converts decides; a matching pattern whose capture does not
\* convert is passed over; the field is absent when no pattern converts.
C9_FirstConvertibleMatch ==
    op \in {"extract_income", "extract_loan_limit"} =>
        IF Converts(text, PatternMatches) = {}
        THEN ret = None
        ELSE ret = Some(Float_(Cleaned(text,
                        PatternMatches[Min(Converts(text, PatternMatches))])))

\* an earlier pattern matched with a capture of commas only, a later one
\* gave the value
C9_Witness ==
    /\ op \in {"extract_income", "extract_loan_limit"}
    /\ ret.present
    /\ Min(Matched(PatternMatches)) \notin Converts(text, PatternMatches)

\* the number written after the Age label, all its digits
StatedAgeMatch == Search([i \in 1..Len(text) |-> AgeAt(text, i)])

StatedAge ==
    Int_(Slice(text, StatedAgeMatch[1], SkipWhile(text, StatedAgeMatch[1], Digits) - 1))

\* C10: a directly stated age outside (0, 120) makes extract_age return
\* absence.
C10_ImplausibleDirectAgeAbsent ==
    /\ op = "extract_age"
    /\ StatedAgeMatch # NoMatch
    /\ (StatedAge <= 0 \/ StatedAge >= MaxAge)
    => ~ret.present

\* the places where the birth-year pattern matches, and the year captured at
\* the leftmost of them
BirthYearHits == {i \in 1..Len(text) : BornAt(LowerStr(text), i) # NoMatch}

BirthYear == Int_(Group(text, BornAt(LowerStr(text), Min(BirthYearHits))))

Completed(t) == threads[t].returned

\* C12: a second Aggregator call on the same text, with the same taxonomy
\* and in the same year, ends as the first call ended (the same record, or
\* the same exception), whatever the process did before and between the two.
C12_SecondCallSameRecord ==
    \A t \in DOMAIN threads : \A j, k \in 1..Len(Completed(t)) :
        Completed(t)[j] = Completed(t)[k]

\* a thread has called twice on a text with several phone numbers and a
\* birth year, and another thread has completed a call in the meantime
C12_Witness ==
    \E t, u \in DOMAIN threads :
        /\ t # u
        /\ Len(Completed(u)) > 0
        /\ Len(Completed(t)) = 2
        /\ Completed(t)[2].exc = ""
        /\ Len(Completed(t)[2].value.phone_numbers) = 2
        /\ Completed(t)[2].value.age.present
        /\ Completed(t)[2].value.location.region.present

RecordFields == { "full_name", "phone_numbers", "nida_number", "age", "location",
                  "income_tzs", "bank_balance_tzs", "loan_limit_tzs", "job_title",
                  "workplace" }

\* C13: for every text the Aggregator returns a record with all its fields;
\* a bank balance whose capture cannot be parsed is absent in it, and every
\* other field holds what its extractor returns on its own.
C13_AlwaysCompleteRecord ==
    op = "extract_all_financial_data" =>
        /\ raised = ""
        /\ DOMAIN ret = RecordFields
        /\ DOMAIN ret.location = {"region", "district", "ward"}
        /\ ret.bank_balance_tzs = extract_bank_balance(text).value
        /\ ret.full_name = extract_full_name(text)
        /\ ret.phone_numbers = extract_phone_numbers(text, hashseed)
        /\ ret.nida_number = extract_nida_number(text)
        /\ ret.age = extract_age(text, year)
        /\ ret.location = extract_location(text, taxonomy)
        /\ ret.income_tzs = extract_income(text)
        /\ ret.loan_limit_tzs = extract_loan_limit(text)
        /\ ret.job_title = extract_job_and_work(text).job_title
        /\ ret.workplace = extract_job_and_work(text).workplace

\* the places where each name template matches
IntroHits == {i \in 1..Len(text) : IntroAt(text, i) # NoMatch}

MyNameHits == {i \in 1..Len(text) : MyNameAt(text, i) # NoMatch}

NameLabelHits == {i \in 1..Len(text) : NameLabelAt(text, i) # NoMatch}

\* the positions of the whitespace characters of a name
Gaps(n) == {i \in 1..Len(n) : Ch(n, i) \in Space}

\* two or three words, one whitespace character between them, each an
\* upper-case letter followed by lower-case letters
CapitalizedWords(n) ==
    /\ Cardinality(Gaps(n)) \in {1, 2}
    /\ \A i \in Gaps(n) : i > 1 /\ i < Len(n) /\ i + 1 \notin Gaps(n)
    /\ \A i \in (1..Len(n)) \ Gaps(n) :
          IF i = 1 \/ i - 1 \in Gaps(n)
          THEN Ch(n, i) \in Upper /\ Ch(n, i + 1) \in Lower
          ELSE Ch(n, i) \in Lower

\* C14: extract_full_name returns the capture of the leftmost match of the
\* first template that matches somewhere, the templates taken in the order
\* "X is a/an", "My name is X", "Name: X" wherever they occur in the text;
\* the name is two or three capitalized words; without a match it is absent.
C14_FirstTemplateWins ==
    op = "extract_full_name" =>
        /\ ret = IF IntroHits # {}
                 THEN Named(Group(text, IntroAt(text, Min(IntroHits))))
                 ELSE IF MyNameHits # {}
                 THEN Named(Group(text, MyNameAt(text, Min(MyNameHits))))
                 ELSE IF NameLabelHits # {}
                 THEN Named(Group(text, NameLabelAt(text, Min(NameLabelHits))))
                 ELSE NoneStr
        /\ ret.present => CapitalizedWords(ret.val)

\* a "Name: Y" label stands before an "X is a" sentence and X is returned
C14_Witness ==
    /\ op = "extract_full_name"
    /\ IntroHits # {} /\ NameLabelHits # {}
    /\ Min(NameLabelHits) < Min(IntroHits)
    /\ ret = Named(Group(text, IntroAt(text, Min(IntroHits))))
    /\ ret # Named(Group(text, NameLabelAt(text, Min(NameLabelHits))))

\* the places where the phone pattern matches, and those of them where a
\* non-overlapping match begins: a place counts unless a match that begins
\* before it and counts reaches it
PhoneHits == {i \in 1..Len(text) : PhoneAt(text, i) # NoMatch}

PhoneStarts ==
    CHOOSE M \in SUBSET PhoneHits :
        \A i \in PhoneHits :
            i \in M <=> \A j \in M : j < i => PhoneAt(text, j)[2] < i

\* C15: the phone numbers returned are the texts of the non-overlapping
\* matches of the phone pattern, each of them once however often it occurs,
\* and nothing else; without a match the result is the empty list.
C15_EveryMatchOnce ==
    op = "extract_phone_numbers" =>
        /\ DOMAIN ret = 1..Len(ret)
        /\ {ret[k] : k \in 1..Len(ret)} =
              {Group(text, PhoneAt(text, i)) : i \in PhoneStarts}
        /\ \A j, k \in 1..Len(ret) : j # k => ret[j] # ret[k]
        /\ PhoneHits = {} => ret = << >>

\* the same number stands twice in the text and is returned once
C15_Witness ==
    /\ op = "extract_phone_numbers"
    /\ Cardinality(PhoneStarts) = 2
    /\ Len(ret) = 1

SupportedFormats == {".txt", ".pdf", ".docx"}

UnsupportedFile == disk # "absent" /\ LowerStr(splitext(file_path)) \notin SupportedFormats

\* C16: extract_text ends with the text, with FileNotFoundError when
\* nothing is at the path (whatever its extension), or with
\* UnsupportedFileTypeError when a file is there whose extension is none of
\* .txt, .pdf, .docx, and with nothing else; the CLI prints the
\* unsupported-format error through its handler.
C16_ThreeOutcomes ==
    /\ op = "extract_text" =>
          /\ raised \in {"", "FileNotFoundError", "UnsupportedFileTypeError"}
          /\ raised = "FileNotFoundError" <=> disk = "absent"
          /\ raised = "UnsupportedFileTypeError" <=> UnsupportedFile
          /\ raised = "" => ret = Named(text)
    /\ op = "main" /\ UnsupportedFile => raised = "" /\ ret = Named("error printed")

\* what a call on the text of thread t returns when it runs alone in a
\* process that has loaded the taxonomy file
Alone(t) == extract_all_financial_data(threads[t].text, locations_json, year, hashseed)

\* C17: no call runs before the taxonomy is loaded; once loaded the taxonomy
\* stays what the file held, whatever calls run; and every call, however it
\* is interleaved with the calls of other threads on other texts, ends as
\* it ends when run alone.
C17_ConcurrentCallsIndependent ==
    /\ ~imported => \A t \in DOMAIN threads :
                        threads[t].pc = "idle" /\ Completed(t) = << >>
    /\ imported => taxonomy = locations_json
    /\ \A t \in DOMAIN threads :
          Completed(t) # << >> =>
              LET alone == Alone(t)
              IN  \A k \in 1..Len(Completed(t)) : Completed(t)[k] = alone

\* one thread has read the taxonomy and is still in its call while another,
\* which has returned a record with a region before, is about to read it
C17_Witness ==
    \E t, u \in DOMAIN threads :
        /\ threads[t].text # threads[u].text
        /\ threads[t].pc = "income_tzs"
        /\ threads[t].data.location.region.present
        /\ threads[u].pc = "location"
        /\ Len(Completed(u)) > 0
        /\ Completed(u)[1].exc = ""
        /\ Completed(u)[1].value.location.region.present

====
